---- MODULE Spec2Model ----
(***************************************************************************)
(* Model of streamlit_app.py: the tenant rate review script.  One run of   *)
(* the script builds the competitor index (manual CSV, scraped fallback),  *)
(* applies suggest() to every row of the tenant frame and concatenates     *)
(* the result.                                                             *)
(*                                                                         *)
(* Numbers.  The script computes in IEEE doubles.  The model computes in   *)
(* exact rationals [nan, n, d] (d > 0, lowest terms) extended with the     *)
(* not-a-number value: arithmetic on NaN gives NaN and every comparison    *)
(* with NaN is false, as in the script.  Binary representation error of    *)
(* the doubles is not modelled.                                            *)
(***************************************************************************)
EXTENDS Integers, Sequences, FiniteSets, TLC

VARIABLES policy, df, comp_manual_csv, scraped, comp_by_unit, global_avg,
          pc, i, applied, out

vars == <<policy, df, comp_manual_csv, scraped, comp_by_unit, global_avg,
          pc, i, applied, out>>

----------------------------------------------------------------------------
(* Bounds of the model *)

MaxRows == 2
MaxManual == 2
MaxUrls == 2

----------------------------------------------------------------------------
(* Float arithmetic with NaN *)

RECURSIVE GCD(_, _)
GCD(a, b) == IF b = 0 THEN a ELSE GCD(b, a % b)

Abs(a) == IF a < 0 THEN -a ELSE a

NaN == [nan |-> TRUE, n |-> 0, d |-> 1]

Num(a, b) ==
    LET g == GCD(Abs(a), Abs(b))
        s == IF b < 0 THEN -1 ELSE 1
    IN  [nan |-> FALSE, n |-> s * (a \div g), d |-> s * (b \div g)]

Int2F(k) == [nan |-> FALSE, n |-> k, d |-> 1]

isnan(x) == x.nan

FMul(x, y) == IF x.nan \/ y.nan THEN NaN ELSE Num(x.n * y.n, x.d * y.d)

FAdd(x, y) == IF x.nan \/ y.nan THEN NaN ELSE Num(x.n * y.d + y.n * x.d, x.d * y.d)

FDiv(x, k) == IF x.nan THEN NaN ELSE Num(x.n, x.d * k)

FLt(x, y) == ~x.nan /\ ~y.nan /\ x.n * y.d < y.n * x.d

FGt(x, y) == FLt(y, x)

FLe(x, y) == ~x.nan /\ ~y.nan /\ x.n * y.d <= y.n * x.d

\* Python's builtin max(a, b): keeps a unless b > a
PyMax(a, b) == IF FGt(b, a) THEN b ELSE a

\* Python's builtin min(a, b): keeps a unless b < a
PyMin(a, b) == IF FLt(b, a) THEN b ELSE a

\* Python's round(x) with no digits, and the ".0f" format: nearest integer,
\* a tie goes to the even neighbour.  Defined for x not NaN.
PyRound(x) ==
    LET fl == x.n \div x.d
        r  == x.n % x.d
    IN  IF 2 * r < x.d THEN fl
        ELSE IF 2 * r > x.d THEN fl + 1
        ELSE IF fl % 2 = 0 THEN fl ELSE fl + 1

RECURSIVE SumSeq(_)
SumSeq(s) == IF s = <<>> THEN 0 ELSE Head(s) + SumSeq(Tail(s))

\* mean of a list of known numbers; NaN for the empty list
Mean(s) == IF s = <<>> THEN NaN ELSE Num(SumSeq(s), Len(s))

----------------------------------------------------------------------------
(* Unit type keys: strings are sequences of one-character strings *)

\* position k of s is whitespace in a run touching an "x"
AdjacentX(s, k) ==
    \E j \in 1..Len(s) :
        /\ s[j] = "x"
        /\ \/ (j > k /\ \A m \in k..(j - 1) : s[m] = " ")
           \/ (j < k /\ \A m \in (j + 1)..k : s[m] = " ")

RECURSIVE Tighten(_, _)
\* re.sub("\s*x\s*", "x"): drops the whitespace runs around each "x"
Tighten(s, k) ==
    IF k > Len(s) THEN <<>>
    ELSE IF s[k] = " " /\ AdjacentX(s, k) THEN Tighten(s, k + 1)
    ELSE <<s[k]>> \o Tighten(s, k + 1)

RECURSIVE Strip(_)
Strip(s) ==
    IF s = <<>> THEN s
    ELSE IF Head(s) = " " THEN Strip(Tail(s))
    ELSE IF s[Len(s)] = " " THEN Strip(SubSeq(s, 1, Len(s) - 1))
    ELSE s

Lower(s) == [k \in 1..Len(s) |-> IF s[k] = "X" THEN "x" ELSE s[k]]

NormalizeUnit(s) == Lower(Strip(Tighten(s, 1)))

----------------------------------------------------------------------------
(* round_to_step *)

\* int(round(val / step) * step); the caller guards val not NaN
round_to_step_Trunc(val, step) == (FDiv(val, step).n \div FDiv(val, step).d) * step

round_to_step(val, step) == PyRound(FDiv(val, step)) * step

----------------------------------------------------------------------------
(* suggest(row): the rule engine *)

OnePlus(pct) == FAdd(Int2F(1), pct)

OneMinus(pct) == FAdd(Int2F(1), FMul(Int2F(-1), pct))

\* base target per cadence
BaseIncrease_NoFloor(months, p) ==
    IF ~isnan(months) /\ FLt(months, Int2F(p.cadence_months))
    THEN FDiv(p.default_increase_pct, 2)
    ELSE p.default_increase_pct

BaseIncrease(months, p) ==
    IF ~isnan(months) /\ FLt(months, Int2F(p.cadence_months))
    THEN PyMax(p.min_inc, FDiv(p.default_increase_pct, 2))
    ELSE p.default_increase_pct

\* target = cur * (1 + base_inc), clamped by max(lo, min(hi, target))
Envelope_UpperLast(cur, base_inc, p) ==
    PyMin(FMul(cur, OnePlus(p.max_inc)),
          PyMax(FMul(cur, OnePlus(p.min_inc)), FMul(cur, OnePlus(base_inc))))

Envelope_NoClamp(cur, base_inc, p) == FMul(cur, OnePlus(base_inc))

Envelope(cur, base_inc, p) ==
    PyMax(FMul(cur, OnePlus(p.min_inc)),
          PyMin(FMul(cur, OnePlus(p.max_inc)), FMul(cur, OnePlus(base_inc))))

\* comp_by_unit.get(unit, np.nan)
CompAvg(index, unit) == IF unit \in DOMAIN index THEN index[unit] ELSE NaN

\* competitor banding: the target after banding and the clauses it appends
CompBand(target, comp_avg, unit, p) ==
    IF ~isnan(comp_avg)
    THEN LET comp_max == FMul(comp_avg, OnePlus(p.band_vs_comp))
             comp_min == FMul(comp_avg, OneMinus(p.band_vs_comp))
             c0 == <<[kind |-> "comp_avg", unit |-> unit, amt |-> PyRound(comp_avg)]>>
             t1 == IF FGt(target, comp_max) THEN comp_max ELSE target
             c1 == IF FGt(target, comp_max)
                   THEN c0 \o <<[kind |-> "ceiling", amt |-> PyRound(comp_max)]>>
                   ELSE c0
             t2 == IF FLt(t1, comp_min) THEN PyMax(t1, comp_min) ELSE t1
             c2 == IF FLt(t1, comp_min)
                   THEN c1 \o <<[kind |-> "floor", amt |-> PyRound(comp_min)]>>
                   ELSE c1
         IN  [target |-> t2, rationale |-> c2]
    ELSE [target |-> target, rationale |-> <<[kind |-> "no_comp"]>>]

\* standard-rate cap: the target after the cap and the clauses it appends
StdCap_AlwaysReported(target, std, p) ==
    IF ~isnan(std)
    THEN LET std_cap == FMul(std, OnePlus(p.band_vs_standard))
         IN  [target |-> IF FGt(target, std_cap) THEN std_cap ELSE target,
              rationale |-> <<[kind |-> "std_cap", amt |-> PyRound(std_cap)]>>]
    ELSE [target |-> target, rationale |-> <<>>]

StdCap_Skipped(target, std, p) == [target |-> target, rationale |-> <<>>]

StdCap(target, std, p) ==
    IF ~isnan(std)
    THEN LET std_cap == FMul(std, OnePlus(p.band_vs_standard))
         IN  IF FGt(target, std_cap)
             THEN [target |-> std_cap,
                   rationale |-> <<[kind |-> "std_cap", amt |-> PyRound(std_cap)]>>]
             ELSE [target |-> target, rationale |-> <<>>]
    ELSE [target |-> target, rationale |-> <<>>]

\* action against the pending rate; target is the rounded integer target
Classify_Closed(target, pend) ==
    IF ~isnan(pend)
    THEN IF FLe(FMul(pend, Num(101, 100)), Int2F(target)) THEN "increase"
         ELSE IF FLe(Int2F(target), FMul(pend, Num(99, 100))) THEN "decrease"
         ELSE "keep"
    ELSE "set"

Classify(target, pend) ==
    IF ~isnan(pend)
    THEN IF FGt(Int2F(target), FMul(pend, Num(101, 100))) THEN "increase"
         ELSE IF FLt(Int2F(target), FMul(pend, Num(99, 100))) THEN "decrease"
         ELSE "keep"
    ELSE "set"

PendingClause(target, pend, action) ==
    IF ~isnan(pend)
    THEN [kind |-> "pending", pend |-> PyRound(pend), suggested |-> target,
          action |-> action]
    ELSE [kind |-> "no_pending", suggested |-> target]

\* the locals of suggest(row) up to the rounding call
SuggestTarget(row, p, index) ==
    LET base_inc == BaseIncrease(row.months_since_last_increase, p)
        envelope == Envelope(row.current_tenant_rate, base_inc, p)
        comp_avg == CompAvg(index, row.unit_type)
        band     == CompBand(envelope, comp_avg, row.unit_type, p)
        cap      == StdCap(band.target, row.current_standard_rate, p)
    IN  [row |-> row, base_inc |-> base_inc, envelope |-> envelope,
         comp_avg |-> comp_avg, banded |-> band.target, pre_round |-> cap.target,
         rationale |-> band.rationale \o cap.rationale]

\* round(nan) raises ValueError inside round_to_step
SuggestRaises(row, p, index) == isnan(SuggestTarget(row, p, index).pre_round)

\* suggest(row) when the rounding call returns
suggest(row, p, index) ==
    LET loc    == SuggestTarget(row, p, index)
        target == round_to_step(loc.pre_round, p.round_step)
        action == Classify(target, row.pending_tenant_rate)
    IN  [row |-> row, base_inc |-> loc.base_inc, envelope |-> loc.envelope,
         comp_avg |-> loc.comp_avg, banded |-> loc.banded,
         pre_round |-> loc.pre_round,
         suggested_rate |-> target, action |-> action,
         rationale |-> loc.rationale
                       \o <<PendingClause(target, row.pending_tenant_rate, action)>>]

----------------------------------------------------------------------------
(* Competitor index *)

\* rates of the manual rows whose normalised unit type is u, in row order
RECURSIVE RatesOf(_, _)
RatesOf(rows, u) ==
    IF rows = <<>> THEN <<>>
    ELSE IF NormalizeUnit(Head(rows).unit_type) = u
         THEN <<Head(rows).comp_rate>> \o RatesOf(Tail(rows), u)
         ELSE RatesOf(Tail(rows), u)

\* cdf.groupby("unit_type")["comp_rate"].mean().to_dict()
GroupMeans(rows) ==
    LET keys == {NormalizeUnit(rows[k].unit_type) : k \in 1..Len(rows)}
    IN  [u \in keys |-> Mean(RatesOf(rows, u))]

RECURSIVE Flatten(_)
\* all_prices.extend(prices) over the URLs
Flatten(lists) == IF lists = <<>> THEN <<>> ELSE Head(lists) \o Flatten(Tail(lists))

\* global_avg = float(np.mean(all_prices)) when any price was scraped
GlobalAvg(lists) == Mean(Flatten(lists))

\* for ut in df["unit_type"].unique(): missing keys get global_avg
FillFallback_Overwrite(index, units, avg) ==
    [u \in DOMAIN index \cup units |->
        IF u \in units /\ ~isnan(avg) THEN avg
        ELSE IF u \in DOMAIN index THEN index[u] ELSE avg]

FillFallback(index, units, avg) ==
    [u \in DOMAIN index \cup units |-> IF u \in DOMAIN index THEN index[u] ELSE avg]

----------------------------------------------------------------------------
(* Inputs of a run *)

\* a sidebar percentage, entered in steps of 0.5 and divided by 100
Pct(halves) == Num(halves, 200)

Policy(d, lo, hi, bc, step) ==
    [default_increase_pct |-> Pct(d), cadence_months |-> 10,
     min_inc |-> Pct(lo), max_inc |-> Pct(hi),
     band_vs_comp |-> Pct(bc), band_vs_standard |-> Pct(10), round_step |-> step]

\* the sidebar defaults: 17%, 10 months, 8%..18%, bands 3% and 5%, $5
DefaultPolicy == Policy(34, 16, 36, 6, 5)

\* default 5%, 12% or 17%, minimum 8% or 20%, maximum 18%, band 0% or 3%, $1 or $5
Policies ==
    {Policy(d, lo, 36, bc, step) :
        d \in {10, 24, 34}, lo \in {16, 40}, bc \in {0, 6}, step \in {1, 5}}

Row(unit, std, cur, pend, months) ==
    [unit_type |-> NormalizeUnit(unit), current_standard_rate |-> std,
     current_tenant_rate |-> cur, pending_tenant_rate |-> pend,
     months_since_last_increase |-> months]

Unit5x5 == <<"5", "x", "5">>
Unit5x5Spaced == <<" ", "5", " ", "x", " ", "5">>
Unit5X5Upper == <<"5", " ", "X", " ", "5">>
Unit10x10 == <<"1", "0", "x", " ", "1", "0">>

NoManual == [uploaded |-> FALSE, readable |-> FALSE, rows |-> <<>>]
BadManual == [uploaded |-> TRUE, readable |-> FALSE, rows |-> <<>>]
Manual(rows) == [uploaded |-> TRUE, readable |-> TRUE, rows |-> rows]

SeqsUpTo(S, n) == UNION {[1..k -> S] : k \in 0..n}

\* one tenant row, every signal present or absent, against one competitor row
EngineInputs ==
    {[policy |-> p, df |-> <<r>>, manual |-> m, scraped |-> <<>>] :
        p \in Policies,
        r \in {Row(u, std, cur, pend, months) :
                 u \in {Unit5x5Spaced, Unit10x10},
                 std \in {NaN, Int2F(100), Int2F(1200)},
                 cur \in {NaN, Int2F(100), Int2F(1000)},
                 pend \in {NaN, Int2F(117), Int2F(1100)},
                 months \in {NaN, Int2F(3), Int2F(12)}},
        m \in {Manual(<<[unit_type |-> Unit5x5, comp_rate |-> c]>>) :
                 c \in {90, 200, 1100, 1111}}}

\* several tenant rows, some without a tenant rate, no competitor data
BatchInputs ==
    {[policy |-> DefaultPolicy, df |-> rows, manual |-> NoManual, scraped |-> <<>>] :
        rows \in SeqsUpTo({Row(Unit5x5, std, cur, pend, Int2F(3)) :
                             std \in {NaN, Int2F(100)},
                             cur \in {NaN, Int2F(100)},
                             pend \in {NaN, Int2F(117)}}, MaxRows) \ {<<>>}}

\* manual tables and scraped price lists against two tenant rows
AggregatorInputs ==
    {[policy |-> DefaultPolicy, df |-> <<r1, r2>>, manual |-> m, scraped |-> s] :
        r1 \in {Row(Unit5x5, NaN, Int2F(100), NaN, NaN)},
        r2 \in {Row(u, NaN, Int2F(100), NaN, NaN) :
                  u \in {Unit5x5Spaced, Unit5X5Upper, Unit10x10}},
        m \in {NoManual, BadManual}
              \cup {Manual(rows) :
                      rows \in SeqsUpTo([unit_type : {Unit5x5Spaced, Unit10x10},
                                         comp_rate : {90, 200}], MaxManual)},
        s \in SeqsUpTo({<<>>, <<100>>, <<200, 300>>}, MaxUrls)}

Inputs == EngineInputs \cup BatchInputs \cup AggregatorInputs

----------------------------------------------------------------------------
(* The run *)

Init ==
    \E in \in Inputs :
        /\ policy = in.policy
        /\ df = in.df
        /\ comp_manual_csv = in.manual
        /\ scraped = in.scraped
        /\ comp_by_unit = <<>>
        /\ global_avg = NaN
        /\ pc = "manual"
        /\ i = 1
        /\ applied = <<>>
        /\ out = <<>>

\* the manual competitor CSV is read and grouped
ReadManualCSV ==
    /\ pc = "manual"
    /\ comp_manual_csv.uploaded /\ comp_manual_csv.readable
    /\ comp_by_unit' = GroupMeans(comp_manual_csv.rows)
    /\ pc' = "scrape"
    /\ UNCHANGED <<policy, df, comp_manual_csv, scraped, global_avg, i, applied, out>>

\* reading the manual competitor CSV raises; the error is shown and the run goes on
ReadManualCSVFails ==
    /\ pc = "manual"
    /\ comp_manual_csv.uploaded /\ ~comp_manual_csv.readable
    /\ pc' = "scrape"
    /\ UNCHANGED <<policy, df, comp_manual_csv, scraped, comp_by_unit, global_avg,
                   i, applied, out>>

\* no manual competitor CSV was uploaded
NoManualCSV ==
    /\ pc = "manual"
    /\ ~comp_manual_csv.uploaded
    /\ pc' = "scrape"
    /\ UNCHANGED <<policy, df, comp_manual_csv, scraped, comp_by_unit, global_avg,
                   i, applied, out>>

\* every URL is scraped and the prices are pooled
ScrapeUrls ==
    /\ pc = "scrape"
    /\ global_avg' = GlobalAvg(scraped)
    /\ pc' = "fallback"
    /\ UNCHANGED <<policy, df, comp_manual_csv, scraped, comp_by_unit, i, applied, out>>

\* unit types of the tenant frame without a manual mean get the global average
FillIndex ==
    /\ pc = "fallback"
    /\ comp_by_unit' = FillFallback(comp_by_unit,
                                    {df[k].unit_type : k \in 1..Len(df)}, global_avg)
    /\ pc' = "apply"
    /\ UNCHANGED <<policy, df, comp_manual_csv, scraped, global_avg, i, applied, out>>

\* df.apply calls suggest on row i and the call returns
ApplySuggest ==
    /\ pc = "apply"
    /\ i <= Len(df)
    /\ ~SuggestRaises(df[i], policy, comp_by_unit)
    /\ applied' = Append(applied, suggest(df[i], policy, comp_by_unit))
    /\ i' = i + 1
    /\ UNCHANGED <<policy, df, comp_manual_csv, scraped, comp_by_unit, global_avg,
                   pc, out>>

\* df.apply calls suggest on row i and the call raises: the run ends there
ApplySuggestRaises ==
    /\ pc = "apply"
    /\ i <= Len(df)
    /\ SuggestRaises(df[i], policy, comp_by_unit)
    /\ pc' = "aborted"
    /\ UNCHANGED <<policy, df, comp_manual_csv, scraped, comp_by_unit, global_avg,
                   i, applied, out>>

OutRow(row, s) ==
    [unit_type |-> row.unit_type,
     current_standard_rate |-> row.current_standard_rate,
     current_tenant_rate |-> row.current_tenant_rate,
     pending_tenant_rate |-> row.pending_tenant_rate,
     months_since_last_increase |-> row.months_since_last_increase,
     suggested_rate |-> s.suggested_rate, action |-> s.action,
     rationale |-> s.rationale]

\* every row is done: the suggestions are concatenated to the frame
Concat ==
    /\ pc = "apply"
    /\ i > Len(df)
    /\ out' = [k \in 1..Len(df) |-> OutRow(df[k], applied[k])]
    /\ pc' = "done"
    /\ UNCHANGED <<policy, df, comp_manual_csv, scraped, comp_by_unit, global_avg,
                   i, applied>>

Next ==
    \/ ReadManualCSV
    \/ ReadManualCSVFails
    \/ NoManualCSV
    \/ ScrapeUrls
    \/ FillIndex
    \/ ApplySuggest
    \/ ApplySuggestRaises
    \/ Concat

Spec == Init /\ [][Next]_vars

----------------------------------------------------------------------------
(* Properties *)

Calls == {applied[k] : k \in 1..Len(applied)}

Known(x) == ~isnan(x)

Positive(x) == ~isnan(x) /\ x.n > 0

\* the bounds of the policy envelope for a call
Lo(c) == FMul(c.row.current_tenant_rate, OnePlus(policy.min_inc))
Hi(c) == FMul(c.row.current_tenant_rate, OnePlus(policy.max_inc))

Consistent == FLe(policy.min_inc, policy.max_inc)

Throttled(c) ==
    /\ Known(c.row.months_since_last_increase)
    /\ c.row.months_since_last_increase.n
         < policy.cadence_months * c.row.months_since_last_increase.d

\* 2 * |m - v| compared with step, for an integer m and a known v, over v.d
TwiceDist(m, v) == 2 * Abs(m * v.d - v.n)

\* m lies within step/2 of the interval [lo, hi]
NearInterval(m, lo, hi, step) ==
    /\ 2 * (lo.n - m * lo.d) <= step * lo.d
    /\ 2 * (m * hi.d - hi.n) <= step * hi.d

\* C1: round_to_step returns the multiple of step nearest to the value, and on
\* an exact tie the multiple further from zero.
C1_RoundsHalfAwayFromZero ==
    \A c \in Calls :
        LET v == c.pre_round
            m == c.suggested_rate
            step == policy.round_step
        IN  /\ m % step = 0
            /\ TwiceDist(m, v) <= step * v.d
            /\ (TwiceDist(m, v) = step * v.d => Abs(m) * v.d > Abs(v.n))

\* C2: a row without a tenant rate never aborts the batch; the run ends with
\* one output row per tenant row.
C2_BatchNeverAborts ==
    /\ pc # "aborted"
    /\ (pc = "done" => Len(out) = Len(df))

\* C3 as stated: with min_inc > max_inc the envelope gives cur * (1 + max_inc).
C3_MaxBoundWins ==
    \A c \in Calls :
        (Positive(c.row.current_tenant_rate) /\ FGt(policy.min_inc, policy.max_inc))
            => c.envelope = Hi(c)

\* C3 amended: with min_inc > max_inc the envelope gives cur * (1 + min_inc),
\* whatever the base increase.
C3_MinBoundWins ==
    \A c \in Calls :
        (Positive(c.row.current_tenant_rate) /\ FGt(policy.min_inc, policy.max_inc))
            => c.envelope = Lo(c) /\ c.envelope # Hi(c)

C3_Witness ==
    \E c \in Calls :
        /\ Positive(c.row.current_tenant_rate)
        /\ FGt(policy.min_inc, policy.max_inc)
        /\ FLt(c.base_inc, policy.max_inc)

\* C4 as stated: with min_inc <= max_inc the suggested rate is within
\* rounding_step/2 of [cur*(1+min_inc), cur*(1+max_inc)], whatever banding or
\* the standard cap did.
C4_AlwaysInsideEnvelope ==
    \A c \in Calls :
        (Positive(c.row.current_tenant_rate) /\ Consistent)
            => NearInterval(c.suggested_rate, Lo(c), Hi(c), policy.round_step)

\* C4 amended: with min_inc <= max_inc the target leaving the policy envelope
\* lies in [cur*(1+min_inc), cur*(1+max_inc)], and the suggested rate is within
\* rounding_step/2 of that interval when neither competitor banding nor the
\* standard cap moved the target.
C4_InsideEnvelopeUnlessBanded ==
    \A c \in Calls :
        (Positive(c.row.current_tenant_rate) /\ Consistent)
            => /\ FLe(Lo(c), c.envelope) /\ FLe(c.envelope, Hi(c))
               /\ (c.banded = c.envelope /\ c.pre_round = c.envelope
                     => NearInterval(c.suggested_rate, Lo(c), Hi(c), policy.round_step))

C4_Witness ==
    \E c \in Calls :
        /\ Positive(c.row.current_tenant_rate) /\ Consistent
        /\ Known(c.comp_avg) /\ Known(c.row.current_standard_rate)
        /\ c.banded = c.envelope /\ c.pre_round = c.envelope
        /\ c.envelope = Lo(c)
        /\ c.base_inc # policy.min_inc

\* C5: without competitor average and without standard rate, under
\* min_inc <= max_inc, the target before rounding lies in
\* [cur*(1+min_inc), cur*(1+max_inc)] and rounding moves it by at most
\* rounding_step/2.
C5_NoSignalsWithinEnvelope ==
    \A c \in Calls :
        (/\ Positive(c.row.current_tenant_rate) /\ Consistent
         /\ isnan(c.comp_avg) /\ isnan(c.row.current_standard_rate))
            => /\ FLe(Lo(c), c.pre_round) /\ FLe(c.pre_round, Hi(c))
               /\ TwiceDist(c.suggested_rate, c.pre_round)
                    <= policy.round_step * c.pre_round.d

C5_Witness ==
    \E c \in Calls :
        /\ Positive(c.row.current_tenant_rate) /\ Consistent
        /\ isnan(c.comp_avg) /\ isnan(c.row.current_standard_rate)
        /\ Throttled(c)
        /\ Int2F(c.suggested_rate) # c.pre_round

\* C6: with a known standard rate the target entering rounding is at most
\* std * (1 + band_vs_standard), also after a competitor-floor raise; with no
\* standard rate the cap step leaves the target as banding left it.
C6_StandardCapWins ==
    \A c \in Calls :
        LET std == c.row.current_standard_rate
        IN  /\ Known(std) =>
                c.pre_round.n * std.d * policy.band_vs_standard.d
                  <= std.n * (policy.band_vs_standard.d + policy.band_vs_standard.n)
                       * c.pre_round.d
            /\ isnan(std) => c.pre_round = c.banded

C6_Witness ==
    \E c \in Calls :
        /\ Known(c.row.current_standard_rate)
        /\ \E k \in 1..Len(c.rationale) : c.rationale[k].kind = "floor"
        /\ FGt(c.banded, c.envelope)
        /\ FLt(c.pre_round, c.banded)

\* C7: the action is "set" exactly when there is no pending rate; with a pending
\* rate it is "increase" exactly when the rounded target is above pending*1.01,
\* "decrease" exactly when it is below pending*0.99, and "keep" otherwise.
C7_ActionFromPending ==
    \A c \in Calls :
        LET t == c.suggested_rate
            pend == c.row.pending_tenant_rate
            above == 100 * t * pend.d > 101 * pend.n
            below == 100 * t * pend.d < 99 * pend.n
        IN  /\ c.action \in {"increase", "decrease", "keep", "set"}
            /\ (c.action = "set") <=> isnan(pend)
            /\ Known(pend) =>
                 /\ (c.action = "increase") <=> above
                 /\ (c.action = "decrease") <=> below
                 /\ (c.action = "keep") <=> (~above /\ ~below)

\* a target exactly on the upper edge of the dead-band is kept
C7_Witness ==
    \E c \in Calls :
        /\ Known(c.row.pending_tenant_rate)
        /\ 100 * c.suggested_rate * c.row.pending_tenant_rate.d
             = 101 * c.row.pending_tenant_rate.n
        /\ c.action = "keep"

Kinds(r) == [k \in 1..Len(r) |-> r[k].kind]

\* the clauses the rules of a call fired, from the targets it went through
FiredKinds(c) ==
    LET std == c.row.current_standard_rate
        comp_max == FMul(c.comp_avg, OnePlus(policy.band_vs_comp))
        comp_min == FMul(c.comp_avg, OneMinus(policy.band_vs_comp))
        ceiling == Known(c.comp_avg) /\ FGt(c.envelope, comp_max)
        floor == Known(c.comp_avg) /\ ~ceiling /\ FLt(c.envelope, comp_min)
        capped == Known(std) /\ FGt(c.banded, FMul(std, OnePlus(policy.band_vs_standard)))
    IN  <<IF Known(c.comp_avg) THEN "comp_avg" ELSE "no_comp">>
        \o (IF ceiling THEN <<"ceiling">> ELSE <<>>)
        \o (IF floor THEN <<"floor">> ELSE <<>>)
        \o (IF capped THEN <<"std_cap">> ELSE <<>>)
        \o <<IF Known(c.row.pending_tenant_rate) THEN "pending" ELSE "no_pending">>

\* C8: the rationale lists one competitor clause, then the ceiling clause if the
\* ceiling capped, the floor clause if the floor raised, the standard-cap clause
\* exactly when the target exceeded the cap, and one pending clause last.
C8_RationaleOrder ==
    \A c \in Calls : Kinds(c.rationale) = FiredKinds(c)

C8_Witness ==
    \E c \in Calls :
        Kinds(c.rationale) = <<"comp_avg", "floor", "std_cap", "pending">>

\* the scenario: no competitor data, standard rate known, cap not reached
C8_ScenarioWitness ==
    \E c \in Calls :
        /\ Known(c.row.current_standard_rate)
        /\ Kinds(c.rationale) = <<"no_comp", "no_pending">>

ManualRates(u) ==
    IF comp_manual_csv.uploaded /\ comp_manual_csv.readable
    THEN RatesOf(comp_manual_csv.rows, u)
    ELSE <<>>

\* x is the arithmetic mean of the non-empty list s
IsMeanOf(x, s) == Known(x) /\ x.n * Len(s) = SumSeq(s) * x.d

IndexBuilt == pc \in {"apply", "done", "aborted"}

\* C9: once the index is built, a tenant unit type with manual rows maps to the
\* mean of its manual rates, one without maps to the mean of all scraped prices
\* pooled, and to NaN when nothing was scraped; a NaN average skips banding.
C9_CompetitorIndex ==
    /\ IndexBuilt =>
         \A k \in 1..Len(df) :
            LET u == df[k].unit_type
                pooled == Flatten(scraped)
            IN  /\ u \in DOMAIN comp_by_unit
                /\ IF ManualRates(u) # <<>> THEN IsMeanOf(comp_by_unit[u], ManualRates(u))
                   ELSE IF pooled # <<>> THEN IsMeanOf(comp_by_unit[u], pooled)
                   ELSE isnan(comp_by_unit[u])
    /\ \A c \in Calls :
         /\ c.comp_avg = comp_by_unit[c.row.unit_type]
         /\ isnan(c.comp_avg) =>
              c.banded = c.envelope /\ c.rationale[1].kind = "no_comp"

\* one unit averages two different manual rates while prices were scraped, the
\* other falls back to the pool of two sources of different sizes
C9_Witness ==
    /\ pc = "done"
    /\ Len(scraped) = 2 /\ Len(scraped[1]) # Len(scraped[2])
    /\ scraped[1] # <<>> /\ scraped[2] # <<>>
    /\ \E k1, k2 \in 1..Len(df) :
         /\ Len(ManualRates(df[k1].unit_type)) = 2
         /\ ManualRates(df[k1].unit_type)[1] # ManualRates(df[k1].unit_type)[2]
         /\ ManualRates(df[k2].unit_type) = <<>>
         /\ applied[k2].comp_avg = global_avg

\* C10 as stated: a throttled call has base max(min_inc, default/2), never above
\* default_increase_pct; any other call has base default_increase_pct.
C10_ThrottledNeverAboveDefault ==
    \A c \in Calls :
        IF Throttled(c)
        THEN /\ c.base_inc \in {policy.min_inc, FDiv(policy.default_increase_pct, 2)}
             /\ FLe(policy.min_inc, c.base_inc)
             /\ FLe(FDiv(policy.default_increase_pct, 2), c.base_inc)
             /\ FLe(c.base_inc, policy.default_increase_pct)
        ELSE c.base_inc = policy.default_increase_pct

\* C10 amended: a throttled call has base max(min_inc, default/2), which is not
\* above default_increase_pct when min_inc <= default_increase_pct; any other
\* call has base default_increase_pct.
C10_ThrottledBase ==
    \A c \in Calls :
        IF Throttled(c)
        THEN /\ c.base_inc \in {policy.min_inc, FDiv(policy.default_increase_pct, 2)}
             /\ FLe(policy.min_inc, c.base_inc)
             /\ FLe(FDiv(policy.default_increase_pct, 2), c.base_inc)
             /\ (FLe(policy.min_inc, policy.default_increase_pct)
                   => FLe(c.base_inc, policy.default_increase_pct))
        ELSE c.base_inc = policy.default_increase_pct

C10_Witness ==
    \E c \in Calls :
        /\ Throttled(c)
        /\ FLe(policy.min_inc, policy.default_increase_pct)
        /\ c.base_inc = policy.min_inc
        /\ FLt(c.base_inc, policy.default_increase_pct)

====
